---- MODULE Spec2Model ----
(***************************************************************************)
(* Placement-and-dispatch core of pbs-final-v3: the router (routing.py,    *)
(* scoring.py, normalization.py, features.py, latency_ml.py, cost_ml.py),  *)
(* the job store (storage.py, attempts.py), the API handlers (jobs.py,     *)
(* route.py), the worker loop (worker.py, dispatcher.py) and the SLA       *)
(* monitor (sla_monitor.py).                                               *)
(*                                                                         *)
(* Numbers.  The code computes in floating point; the model computes in    *)
(* fixed point:                                                            *)
(*   utilisations      percent                (0..100)                      *)
(*   reliability       permille               (0..1000)                     *)
(*   latency           milliseconds (the p90 estimate, 1.25 x mean, is      *)
(*                     compared by cross-multiplying)                       *)
(*   cost              1e-7 USD               (10 = 1 micro-dollar)         *)
(*   price per hour    cents                                                *)
(*   normalised score  1e-4   (One = 1.0)                                   *)
(*   final/effective   1e-6   (weights are carried in percent)              *)
(* An optional value (Python None or a value) is the empty set or a        *)
(* singleton.                                                              *)
(***************************************************************************)
EXTENDS Integers, Sequences, FiniteSets, Bags, TLC

VARIABLES
    telemetry,   \* table telemetry: the rows in rowid order (append only)
    jobs,        \* table jobs: job_id -> the row, for the job ids stored
    job_events,  \* table job_events: job_id -> the bag of its rows' event kinds
    job_attempts,\* table job_attempts: job_id -> its attempt rows in rowid order
    worker,      \* worker_id -> the worker process's position and locals
    monitor,     \* the SLA monitor process's position and locals
    api,         \* the cancel request in flight (between its read and its write)
    response,    \* what the step just taken returned to its caller (an API client,
                 \* or the worker that called claim_next_job), if anything
    calls,       \* how many API calls and monitor scans have been made
    claimed      \* job_id -> claims returned since the job was last written QUEUED

vars == <<telemetry, jobs, job_events, job_attempts, worker, monitor, api,
          response, calls, claimed>>

None == {}
Some(v) == {v}

Min(a, b) == IF a < b THEN a ELSE b
Max(a, b) == IF a > b THEN a ELSE b

RECURSIVE Pow2(_)
Pow2(n) == IF n <= 0 THEN 1 ELSE 2 * Pow2(n - 1)

\* The element of a one-element set.
The(S) == CHOOSE x \in S : TRUE

\* A sequence given as a function, as a tuple of its values.
Tuple(f) == f \o <<>>

----------------------------------------------------------------------------
(* Bounds of the model. *)

MaxPoints == 2      \* telemetry rows inserted (SpecRoute)
MaxCalls == 2       \* API calls (submit, cancel, complete) and monitor scans
MaxValue == 6       \* metric values normalised: -2..MaxValue (SpecNorm)
MaxBound == 4       \* normalisation bounds: 0..MaxBound (SpecNorm)

----------------------------------------------------------------------------
(* schemas.py *)

ResourceTypes == {"edge", "cloud", "gpu"}

\* ORDER BY on the two text columns: the rank of a value in its sort order.
TypeRank(rt) == CASE rt = "cloud" -> 1 [] rt = "edge" -> 2 [] rt = "gpu" -> 3
IdRank(rid) == CASE rid = "c1" -> 1 [] rid = "e1" -> 2 [] rid = "e2" -> 3
                 [] rid = "g1" -> 4 [] rid = "g2" -> 5

TelemetryPoint(rid, rt, ts, util, rel, price, rtt) ==
    [resource_id |-> rid, resource_type |-> rt, ts |-> ts,
     cpu_util |-> util, mem_util |-> util, gpu_util |-> util,
     net_rtt_ms |-> rtt, net_bw_mbps |-> 100, price_per_hour_usd |-> price,
     reliability |-> rel, power_w |-> 50]

SLA(deadline, maxcost, minrel) ==
    [deadline_ms |-> deadline, max_cost_usd |-> maxcost, min_reliability |-> minrel]

Hints(fff, excl, fid, ftype) ==
    [force_fail_first |-> fff, exclude_resource_ids |-> excl,
     force_resource_id |-> fid, force_resource_type |-> ftype]

JobRequest(id, gpu, fallback, payload, sla, hints) ==
    [job_id |-> id, requires_gpu |-> gpu, allow_sla_fallback |-> fallback,
     payload_size_mb |-> payload, sla |-> sla, hints |-> hints]

----------------------------------------------------------------------------
(* storage.py: telemetry *)

insert_point(tel, p) == Append(tel, p)

\* "x or d" on a stored number: 0 and NULL both give the default.
OrDefault(x, d) == IF x = 0 THEN d ELSE x

\* The row as list_resources_latest rebuilds it.
ReadPoint(row) ==
    [row EXCEPT !.reliability = OrDefault(row.reliability, 980),
                !.power_w = OrDefault(row.power_w, 50)]

\* The rowids of the join: rows whose ts is the MAX(ts) of their resource_id.
LatestRowIds(tel) ==
    {i \in DOMAIN tel :
        \A k \in DOMAIN tel :
            tel[k].resource_id = tel[i].resource_id => tel[k].ts <= tel[i].ts}

\* ORDER BY t1.resource_type, t1.resource_id; rows equal in both come in rowid
\* order (SQL leaves that order open; SQLite's sort keeps the scan order).
RowBefore(tel, i, k) ==
    LET a == tel[i]
        b == tel[k]
    IN  \/ TypeRank(a.resource_type) < TypeRank(b.resource_type)
        \/ /\ a.resource_type = b.resource_type
           /\ IdRank(a.resource_id) < IdRank(b.resource_id)
        \/ /\ a.resource_type = b.resource_type
           /\ a.resource_id = b.resource_id
           /\ i < k

\* The rowids ids in that order: the n-th is the one with n - 1 rows before it.
OrderRows(tel, ids) ==
    [n \in 1..Cardinality(ids) |->
        CHOOSE i \in ids : Cardinality({k \in ids : RowBefore(tel, k, i)}) = n - 1]

list_resources_latest(tel) ==
    The({Tuple([n \in DOMAIN ordered |-> ReadPoint(tel[ordered[n]])]) :
            ordered \in {Tuple(OrderRows(tel, LatestRowIds(tel)))}})

\* latest_point: ORDER BY ts DESC LIMIT 1 for one resource; the worker only
\* tests whether a point exists.
has_latest_point(tel, rid) == \E i \in DOMAIN tel : tel[i].resource_id = rid

----------------------------------------------------------------------------
(* features.py *)

Clamp(x, lo, hi) == Max(lo, Min(hi, x))

compute_congestion(t) ==
    LET base == (t.cpu_util + t.mem_util) \div 2
        b2 == IF t.resource_type = "gpu" THEN (base + t.gpu_util) \div 2 ELSE base
    IN  Clamp(b2, 0, 100)

----------------------------------------------------------------------------
(* latency_ml.py, cost_ml.py: no model file ships with the sources, so    *)
(* load_model() is None and, in the routing and lifecycle specifications,  *)
(* both predictors take their fallback branch.                             *)

\* mean_ms = rtt + 20 * payload / max(1, bw) + 500 * congestion
predict_latency_mean(t, job) ==
    t.net_rtt_ms + (20 * job.payload_size_mb) \div Max(1, t.net_bw_mbps)
        + 5 * compute_congestion(t)

\* p90_ms = mean * 1.25, in quarter milliseconds
predict_latency_p90x4(t, job) == 5 * predict_latency_mean(t, job)

base_cost(t, job, latency_ms) ==
    LET rt == t.resource_type
        price == IF t.price_per_hour_usd <= 0
                 THEN (IF rt = "edge" THEN 1 ELSE IF rt = "cloud" THEN 8 ELSE 120)
                 ELSE t.price_per_hour_usd
        egress == IF rt = "cloud" THEN 200 * job.payload_size_mb ELSE 0
    IN  (price * latency_ms) \div 36 + egress

predict_cost_mean(t, job, latency_pred_ms) ==
    LET lat == IF latency_pred_ms <= 0 THEN 800 ELSE latency_pred_ms
    IN  base_cost(t, job, lat)

\* predict_latency and predict_cost with their learned-model branch.  model
\* is None when no model file is loaded and otherwise holds the outcome of
\* model.predict for the features: the number y it returns (a latency in ms
\* from the random forest of train_latency_model.py; a signed cost residual
\* from the extra trees of train_cost_model.py), or raises when the call
\* throws (a pipeline fitted on other columns, an incompatible pickle).  q90
\* is the conformal quantile of the metrics file, 0 when the file or the key
\* is missing.  The p90 estimate (mean * 1.25, mean * 1.2 or mean + q90) is
\* kept in twentieths.
Learned(y) == Some([raises |-> FALSE, y |-> y])
Throws == Some([raises |-> TRUE, y |-> 0])

\* model.predict(X) is called outside any try block: whether the predictor
\* ends in an exception.
model_raises(model) == model # None /\ The(model).raises

predict_latency(model, q90, t, job) ==
    IF model = None
    THEN [mean_ms |-> predict_latency_mean(t, job),
          p90_x20 |-> 25 * predict_latency_mean(t, job), used |-> "fallback"]
    ELSE LET mean == The(model).y
         IN  [mean_ms |-> mean,
              p90_x20 |-> IF q90 > 0 THEN 20 * (mean + q90) ELSE 24 * mean,
              used |-> "model"]

predict_cost(model, q90, t, job, latency_pred_ms) ==
    LET base == predict_cost_mean(t, job, latency_pred_ms)
    IN  IF model = None
        THEN [mean_usd |-> base, p90_x20 |-> 24 * base, used |-> "base_only"]
        ELSE LET mean == base + The(model).y
             IN  [mean_usd |-> mean,
                  p90_x20 |-> IF q90 > 0 THEN 20 * (mean + q90) ELSE 24 * mean,
                  used |-> "model"]

----------------------------------------------------------------------------
(* normalization.py *)

One == 10000

\* A minmax01 that does not clamp (a variant the properties must reject).
minmax01_unclamped(x, min_v, max_v, invert) ==
    IF max_v <= min_v THEN 0
    ELSE LET v == ((x - min_v) * One) \div (max_v - min_v)
         IN  IF invert THEN One - v ELSE v

minmax01(x, min_v, max_v, invert) ==
    IF max_v <= min_v THEN 0
    ELSE LET v == Clamp(((x - min_v) * One) \div (max_v - min_v), 0, One)
         IN  IF invert THEN One - v ELSE v

\* DEFAULT_BOUNDS: latency_ms (5, 4000), cost_usd (0.0001, 0.2),
\* reliability (0.80, 0.999), energy_w (5, 400)
normalize_scores(latency_ms, cost, reliability, energy_w) ==
    [latency |-> minmax01(latency_ms, 5, 4000, TRUE),
     cost |-> minmax01(cost, 1000, 2000000, TRUE),
     reliability |-> minmax01(reliability, 800, 999, FALSE),
     energy |-> minmax01(energy_w, 5, 400, TRUE)]

----------------------------------------------------------------------------
(* scoring.py *)

\* The violations in the order the checks are made; p90 latency > deadline_ms,
\* p90 cost (1.2 x mean) > max_cost_usd, reliability < min_reliability.
sla_check(job, latency_p90x4, cost_mean, reliability) ==
    (IF \E d \in job.sla.deadline_ms : latency_p90x4 > 4 * d
        THEN <<"deadline_ms">> ELSE <<>>)
    \o (IF \E c \in job.sla.max_cost_usd : 6 * cost_mean > 5 * c
        THEN <<"max_cost_usd">> ELSE <<>>)
    \o (IF \E r \in job.sla.min_reliability : reliability < r
        THEN <<"min_reliability">> ELSE <<>>)

\* A penalty charged once however many violations there are (a variant the
\* properties must reject).
effective_score_flat(final, violations) ==
    final - 350000 * (IF Len(violations) > 0 THEN 1 ELSE 0)

\* effective = final - 0.35 * len(violations)
effective_score(final, violations) == final - 350000 * Len(violations)

score_resource(t, job) ==
    LET lat == predict_latency_mean(t, job)
        cost == predict_cost_mean(t, job, lat)
        reliability == OrDefault(t.reliability, 980)
        energy_w == OrDefault(t.power_w, 50)
        norm == normalize_scores(lat, cost, reliability, energy_w)
        final == 45 * norm.latency + 25 * norm.cost
                    + 20 * norm.reliability + 10 * norm.energy
        violations == sla_check(job, predict_latency_p90x4(t, job), cost, reliability)
    IN  [latency_pred_ms |-> lat, cost_pred_usd |-> cost,
         reliability |-> reliability, final_score |-> final,
         sla_ok |-> (Len(violations) = 0),
         effective_score |-> effective_score(final, violations),
         sla_violations |-> violations]

----------------------------------------------------------------------------
(* routing.py *)

eligible(t, job) ==
    /\ ~(job.requires_gpu /\ t.resource_type # "gpu")
    /\ ~(OrDefault(t.reliability, 0) < 850)

\* The hint filters, in the code's order: exclude ids, force id, force type.
hint_filter(cands, hints) ==
    LET Keep(t) == /\ t.resource_id \notin hints.exclude_resource_ids
                   /\ \A f \in hints.force_resource_id : t.resource_id = f
                   /\ \A f \in hints.force_resource_type : t.resource_type = f
    IN  SelectSeq(cands, Keep)

\* The (t, b) pairs of the candidates that pass _eligible, in encounter order.
scored(cands, job) ==
    LET Pass(t) == eligible(t, job)
    IN  The({Tuple([n \in DOMAIN kept |->
                       [t |-> kept[n], b |-> score_resource(kept[n], job)]]) :
                kept \in {SelectSeq(cands, Pass)}})

\* The last place of the greatest of keys.
max_last(keys) ==
    CHOOSE i \in DOMAIN keys :
        /\ \A k \in DOMAIN keys : keys[k] <= keys[i]
        /\ \A k \in DOMAIN keys : k > i => keys[k] < keys[i]

\* max(seq, key=...): the first place of the greatest of keys.
max_first(keys) ==
    CHOOSE i \in DOMAIN keys :
        /\ \A k \in DOMAIN keys : keys[k] <= keys[i]
        /\ \A k \in DOMAIN keys : k < i => keys[k] < keys[i]

\* sorted(considered, key=effective_score, reverse=True): stable, descending.
\* The n-th of the result is the element with n - 1 elements before it.
sort_desc(seq) ==
    LET Before(k, i) ==
            \/ seq[k].b.effective_score > seq[i].b.effective_score
            \/ /\ seq[k].b.effective_score = seq[i].b.effective_score
               /\ k < i
    IN  [n \in DOMAIN seq |->
            seq[CHOOSE i \in DOMAIN seq :
                    Cardinality({k \in DOMAIN seq : Before(k, i)}) = n - 1]]

considered_sorted(sc) ==
    The({Tuple([n \in DOMAIN s |-> [resource_id |-> s[n].t.resource_id,
                                    resource_type |-> s[n].t.resource_type,
                                    score |-> s[n].b]]) :
            s \in {Tuple(sort_desc(sc))}})

RouteDecision(job, rid, rt, considered, explanation) ==
    [job_id |-> job.job_id, chosen_resource_id |-> rid, chosen_resource_type |-> rt,
     considered |-> considered, explanation |-> explanation]

FinalKeys(seq) == Tuple([n \in DOMAIN seq |-> seq[n].b.final_score])
EffectiveKeys(seq) == Tuple([n \in DOMAIN seq |-> seq[n].b.effective_score])
IsOk(tb) == tb.b.sla_ok
IsBad(tb) == ~tb.b.sla_ok

\* The choices of route, each after a variant the properties must reject.
choose_ok_last(ok) == ok[max_last(FinalKeys(ok))].t
choose_ok(ok) == ok[max_first(FinalKeys(ok))].t

choose_bad_by_final(bad) == bad[max_first(FinalKeys(bad))].t
choose_bad(bad) == bad[max_first(EffectiveKeys(bad))].t

fallback_denied_ignored(job) == FALSE
fallback_denied(job) == ~job.allow_sla_fallback

\* A route that never falls back to an SLA violator (a variant the properties
\* must reject).
decide_without_fallback(job, sc) ==
    LET ok == SelectSeq(sc, IsOk)
        cs == considered_sorted(sc)
    IN  IF Len(ok) > 0
        THEN LET t == choose_ok(ok)
             IN  RouteDecision(job, t.resource_id, t.resource_type, cs, "SLA OK")
        ELSE RouteDecision(job, "none", "edge", cs, "blocked")

\* route, from the sort of considered on: sc is the (t, b) pairs scored.
decide(job, sc) ==
    LET ok == SelectSeq(sc, IsOk)
        bad == SelectSeq(sc, IsBad)
        cs == considered_sorted(sc)
    IN  IF Len(ok) > 0
        THEN LET t == choose_ok(ok)
             IN  RouteDecision(job, t.resource_id, t.resource_type, cs, "SLA OK")
        ELSE IF fallback_denied(job)
        THEN RouteDecision(job, "none", "edge", cs, "blocked")
        ELSE IF Len(bad) > 0
        THEN LET t == choose_bad(bad)
             IN  RouteDecision(job, t.resource_id, t.resource_type, cs, "SLA FALLBACK")
        ELSE RouteDecision(job, "none", "edge", cs, "no eligible")

route(job, tel) ==
    The({decide(job, sc) :
            sc \in {scored(hint_filter(list_resources_latest(tel), job.hints), job)}})

\* The score of the chosen resource in the considered list (chosen_score in
\* submit_job and _reroute_job): the first entry with the chosen id, or None.
chosen_score(decision) ==
    LET hit == {n \in DOMAIN decision.considered :
                   decision.considered[n].resource_id = decision.chosen_resource_id}
    IN  IF hit = {} THEN None
        ELSE Some(decision.considered[CHOOSE n \in hit : \A m \in hit : n <= m].score)

----------------------------------------------------------------------------
(* Time.  A timestamp is kept relative to the current time: created_at is  *)
(* the submission's sequence number (it only orders jobs), deadline_in_ms  *)
(* is created_at + sla_deadline_ms - now and next_run_at is the seconds    *)
(* left until the backoff is due.  Tick lets one second pass.              *)

JobIds == {"j1", "j2"}
WorkerIds == {"w1", "w2"}

\* The telemetry of the lifecycle specifications: one point per resource.
SysTelemetry ==
    << TelemetryPoint("e1", "edge", 1, 10, 990, 1, 20),
       TelemetryPoint("c1", "cloud", 1, 10, 990, 8, 40),
       TelemetryPoint("g1", "gpu", 1, 10, 990, 120, 40) >>

NoHints == Hints(FALSE, {}, None, None)

\* The job requests of the lifecycle specifications: a job with a 1 s
\* deadline that any resource can run, and a GPU job no resource can run
\* within its SLA (deadline 0, no fallback).
SysRequests(id) ==
    { JobRequest(id, FALSE, TRUE, 50, SLA(Some(1000), None, None), NoHints),
      JobRequest(id, TRUE, FALSE, 50, SLA(Some(0), None, None), NoHints) }

----------------------------------------------------------------------------
(* storage.py: jobs, job_events; attempts.py: job_attempts *)

upsert_job(tbl, row) == (row.job_id :> row) @@ tbl

update_job(tbl, id, fields) ==
    IF id \notin DOMAIN tbl THEN tbl
    ELSE [tbl EXCEPT ![id] =
            [f \in DOMAIN tbl[id] |->
                IF f \in DOMAIN fields THEN fields[f] ELSE tbl[id][f]]]

\* An add_job_event that writes nothing (a variant the properties must reject).
add_job_event_dropped(ev, id, event) == ev

add_job_event(ev, id, event) == [ev EXCEPT ![id] = @ (+) SetToBag({event})]

\* A SELECT without the status test (a variant the properties must reject).
claimable_any_status(tbl) ==
    {id \in DOMAIN tbl :
        /\ tbl[id].status \in {"QUEUED", "RUNNING"}
        /\ \A n \in tbl[id].next_run_at : n <= 0}

\* A SELECT that also returns BLOCKED rows (a variant the properties must reject).
claimable_with_blocked(tbl) ==
    {id \in DOMAIN tbl :
        /\ tbl[id].status \in {"QUEUED", "BLOCKED"}
        /\ \A n \in tbl[id].next_run_at : n <= 0}

\* A SELECT without the next_run_at test (a variant the properties must reject).
claimable_ignoring_backoff(tbl) ==
    {id \in DOMAIN tbl : tbl[id].status = "QUEUED"}

\* The rows claim_next_job's SELECT can return: QUEUED, next_run_at NULL or due.
claimable(tbl) ==
    {id \in DOMAIN tbl :
        /\ tbl[id].status = "QUEUED"
        /\ \A n \in tbl[id].next_run_at : n <= 0}

\* The created_at of the newest row other than id's (0 when there is none):
\* a row written now is newer than every other row.
newest(tbl, id) ==
    LET others == DOMAIN tbl \ {id}
    IN  IF others = {} THEN 0
        ELSE tbl[CHOOSE k \in others :
                    \A m \in others : tbl[m].created_at <= tbl[k].created_at].created_at

\* ORDER BY created_at ASC LIMIT 1
oldest(tbl, ids) == CHOOSE id \in ids : \A k \in ids : tbl[id].created_at <= tbl[k].created_at

\* An UPDATE without the job_id test: every QUEUED row is taken (a variant
\* the properties must reject).
claim_update_all(tbl, id, w) ==
    [k \in DOMAIN tbl |->
        IF tbl[k].status = "QUEUED"
        THEN [tbl[k] EXCEPT !.status = "RUNNING", !.worker_id = Some(w),
                            !.attempts = @ + 1, !.next_run_at = None]
        ELSE tbl[k]]

\* The UPDATE of claim_next_job.
claim_update(tbl, id, w) ==
    update_job(tbl, id, [status |-> "RUNNING", worker_id |-> Some(w),
                         attempts |-> tbl[id].attempts + 1, next_run_at |-> None])

\* attempt_no = int(job_row.get("attempts") or 1)
create_attempt_row(job_row) ==
    [attempt_no |-> OrDefault(job_row.attempts, 1),
     chosen_resource_id |-> job_row.chosen_resource_id,
     chosen_resource_type |-> job_row.chosen_resource_type,
     status |-> "RUNNING",
     sla_ok |-> job_row.sla_ok,
     features_json |-> job_row.features_json,
     error_class |-> None,
     error_message |-> None,
     traceback |-> None,
     rerouted_from_resource_id |-> None,
     rerouted_to_resource_id |-> None]

\* An UPDATE with WHERE job_id in place of WHERE attempt_id: every attempt
\* row of the job is written (a variant the properties must reject).
update_attempt_by_job(att, id, n, fields) ==
    [att EXCEPT ![id] =
        [k \in DOMAIN att[id] |->
            [f \in DOMAIN att[id][k] |->
                IF f \in DOMAIN fields THEN fields[f] ELSE att[id][k][f]]]]

\* An UPDATE job_attempts ... WHERE attempt_id = ?: the n-th row of job id.
update_attempt(att, id, n, fields) ==
    [att EXCEPT ![id][n] =
        [f \in DOMAIN att[id][n] |->
            IF f \in DOMAIN fields THEN fields[f] ELSE att[id][n][f]]]

----------------------------------------------------------------------------
(* jobs.py *)

\* The row submit_job builds from the request and the decision.
submit_row(job, decision, seq) ==
    LET cs == chosen_score(decision)
    IN  [job_id |-> job.job_id,
         job_request_json |-> job,
         status |-> IF decision.chosen_resource_id = "none" THEN "BLOCKED" ELSE "QUEUED",
         attempts |-> 0,
         max_attempts |-> 2,
         next_run_at |-> None,
         chosen_resource_id |-> decision.chosen_resource_id,
         chosen_resource_type |-> decision.chosen_resource_type,
         worker_id |-> None,
         created_at |-> seq,
         deadline_in_ms |-> job.sla.deadline_ms,
         predicted |-> {[latency_ms |-> b.latency_pred_ms, cost_usd |-> b.cost_pred_usd,
                         final_score |-> b.final_score] : b \in cs},
         sla_ok |-> \E b \in cs : b.sla_ok,
         sla_violations |-> IF cs = None THEN <<>>
                            ELSE (CHOOSE b \in cs : TRUE).sla_violations,
         features_json |-> None,
         output_ref |-> None]

\* upsert_job leaves the columns the row does not name (features_json) as
\* they are when the job_id exists.
submit_upsert(tbl, row) ==
    upsert_job(tbl, IF row.job_id \in DOMAIN tbl
                    THEN [row EXCEPT !.features_json = tbl[row.job_id].features_json]
                    ELSE row)

SubmitJob(job) ==
    /\ calls < MaxCalls
    /\ \E decision \in {route(job, telemetry)} :
       \E row \in {submit_row(job, decision, newest(jobs, job.job_id) + 1)} :
           /\ jobs' = submit_upsert(jobs, row)
           /\ job_events' = add_job_event(job_events, job.job_id, "SUBMITTED")
           /\ response' = [op |-> "submit", job |-> job, code |-> 200,
                           status |-> row.status, decision |-> decision]
           /\ claimed' = IF row.status = "QUEUED"
                         THEN [claimed EXCEPT ![job.job_id] = 0] ELSE claimed
    /\ calls' = calls + 1
    /\ UNCHANGED <<telemetry, job_attempts, worker, monitor, api>>

ApiIdle == [op |-> "idle"]
NoResponse == [op |-> "none"]

\* cancel_job up to its update: get_job, the 404 and the 409.
cancel_allowed(status) == status \notin {"COMPLETED", "FAILED"}

CancelRead(id) ==
    /\ api.op = "idle"
    /\ calls < MaxCalls
    /\ calls' = calls + 1
    /\ IF id \notin DOMAIN jobs
       THEN /\ response' = [op |-> "cancel", job_id |-> id, code |-> 404]
            /\ api' = api
       ELSE IF ~cancel_allowed(jobs[id].status)
       THEN /\ response' = [op |-> "cancel", job_id |-> id, code |-> 409]
            /\ api' = api
       ELSE /\ api' = [op |-> "cancel", job_id |-> id, seen |-> jobs[id].status]
            /\ response' = NoResponse
    /\ UNCHANGED <<telemetry, jobs, job_events, job_attempts, worker, monitor, claimed>>

\* cancel_job from its update on.
CancelWrite ==
    /\ api.op = "cancel"
    /\ jobs' = update_job(jobs, api.job_id, [status |-> "CANCELLED", worker_id |-> None])
    /\ job_events' = add_job_event(job_events, api.job_id, "CANCELLED")
    /\ response' = [op |-> "cancel", job_id |-> api.job_id, code |-> 200,
                    seen |-> api.seen]
    /\ api' = ApiIdle
    /\ UNCHANGED <<telemetry, job_attempts, worker, monitor, calls, claimed>>

CompleteJob(id) ==
    /\ calls < MaxCalls
    /\ calls' = calls + 1
    /\ IF id \notin DOMAIN jobs
       THEN /\ response' = [op |-> "complete", job_id |-> id, code |-> 404]
            /\ UNCHANGED <<jobs, job_events>>
       ELSE /\ jobs' = update_job(jobs, id, [status |-> "COMPLETED",
                                             output_ref |-> Some("manual")])
            /\ job_events' = add_job_event(job_events, id, "COMPLETED")
            /\ response' = [op |-> "complete", job_id |-> id, code |-> 200]
    /\ UNCHANGED <<telemetry, job_attempts, worker, monitor, api, claimed>>

----------------------------------------------------------------------------
(* worker.py, dispatcher.py *)

WorkerIdle == [pc |-> "idle"]

\* delay = min(60, 2 ** max(1, attempts)), in seconds
backoff(attempts) == Min(60, Pow2(Max(1, attempts)))

\* The request _reroute_job and _reroute hand to route(): the stored request
\* with the row's current resource added to exclude_resource_ids.
reroute_request(row) ==
    LET cur == row.chosen_resource_id
        ex == row.job_request_json.hints.exclude_resource_ids
    IN  [row.job_request_json EXCEPT
            !.hints.exclude_resource_ids = IF cur # "none" THEN ex \cup {cur} ELSE ex]

\* claim_next_job: one BEGIN IMMEDIATE transaction.  It returns the row as
\* the SELECT read it (before the UPDATE), or nothing; main uses the
\* returned row for its job_id only (rows are never deleted, so the
\* "get_job(job_id) or job" re-read always finds the row).
claim_next_job(w) ==
    /\ worker[w].pc = "idle"
    /\ LET ids == claimable(jobs)
       IN  IF ids = {}
           THEN /\ response' = [op |-> "claim", job_id |-> None]
                /\ UNCHANGED <<jobs, worker, claimed>>
           ELSE LET id == oldest(jobs, ids)
                IN  /\ jobs' = claim_update(jobs, id, w)
                    /\ worker' = [worker EXCEPT ![w] = [pc |-> "claimed", job_id |-> id]]
                    /\ claimed' = [claimed EXCEPT ![id] = @ + 1]
                    /\ response' = [op |-> "claim", job_id |-> Some(id)]
    /\ UNCHANGED <<telemetry, job_events, job_attempts, monitor, api, calls>>

\* The columns of a row read by get_job that main and _reroute_job use later.
Kept(row) ==
    [attempts |-> row.attempts, max_attempts |-> row.max_attempts,
     job_request_json |-> row.job_request_json,
     chosen_resource_id |-> row.chosen_resource_id,
     chosen_resource_type |-> row.chosen_resource_type]

\* main, from the re-read of the claimed job to the call of dispatch: the
\* CANCELLED check, create_attempt, the RUNNING event, the feature capture.
Prepare(w) ==
    /\ worker[w].pc = "claimed"
    /\ LET id == worker[w].job_id
           latest == jobs[id]
           rid == latest.chosen_resource_id
           tel == rid # "none" /\ has_latest_point(telemetry, rid)
           n == Len(job_attempts[id]) + 1
           row == create_attempt_row(latest)
       IN  IF latest.status = "CANCELLED"
           THEN /\ job_events' = add_job_event(job_events, id, "SKIPPED")
                /\ worker' = [worker EXCEPT ![w] = WorkerIdle]
                /\ UNCHANGED <<jobs, job_attempts>>
           ELSE /\ job_attempts' =
                      [job_attempts EXCEPT ![id] = Append(@,
                          IF tel THEN [row EXCEPT !.features_json = Some(rid)] ELSE row)]
                /\ jobs' = IF tel THEN update_job(jobs, id, [features_json |-> Some(rid)])
                           ELSE jobs
                /\ job_events' =
                      add_job_event(add_job_event(job_events, id, "RUNNING"), id,
                          IF tel THEN "FEATURES_CAPTURED" ELSE "FEATURES_SKIPPED")
                /\ worker' = [worker EXCEPT ![w] =
                      [pc |-> "dispatching", job_id |-> id, attempt_id |-> n,
                       latest |-> Kept(latest)]]
    /\ UNCHANGED <<telemetry, monitor, api, calls, claimed>>
    /\ response' = NoResponse

\* dispatch raises before it reaches the adapter: force_fail_first and attempts = 1.
forced_failure(job_row) ==
    /\ job_row.job_request_json.hints.force_fail_first
    /\ job_row.attempts = 1

\* A success branch whose update_job does not write the status (a variant
\* the properties must reject).
DispatchSuccess_left_running(w) ==
    /\ worker[w].pc = "dispatching"
    /\ ~forced_failure(worker[w].latest)
    /\ LET id == worker[w].job_id
       IN  /\ jobs' = update_job(jobs, id, [output_ref |-> Some("sim"),
                                            worker_id |-> Some(w)])
           /\ job_attempts' = update_attempt(job_attempts, id, worker[w].attempt_id,
                                             [status |-> "COMPLETED"])
           /\ job_events' = add_job_event(job_events, id, "COMPLETED")
    /\ worker' = [worker EXCEPT ![w] = WorkerIdle]
    /\ UNCHANGED <<telemetry, monitor, api, calls, claimed>>
    /\ response' = NoResponse

\* dispatch returns: the job and the attempt are closed COMPLETED.
DispatchSuccess(w) ==
    /\ worker[w].pc = "dispatching"
    /\ ~forced_failure(worker[w].latest)
    /\ LET id == worker[w].job_id
       IN  /\ jobs' = update_job(jobs, id, [status |-> "COMPLETED",
                                            output_ref |-> Some("sim"),
                                            worker_id |-> Some(w)])
           /\ job_attempts' = update_attempt(job_attempts, id, worker[w].attempt_id,
                                             [status |-> "COMPLETED"])
           /\ job_events' = add_job_event(job_events, id, "COMPLETED")
    /\ worker' = [worker EXCEPT ![w] = WorkerIdle]
    /\ UNCHANGED <<telemetry, monitor, api, calls, claimed>>
    /\ response' = NoResponse

\* A failure branch that re-reads the job without closing the attempt row
\* (a variant the properties must reject).
DispatchFailure_unrecorded(w) ==
    /\ worker[w].pc = "dispatching"
    /\ LET id == worker[w].job_id
           latest2 == Kept(jobs[id])
       IN  worker' = [worker EXCEPT ![w] =
                         [pc |-> "failed", job_id |-> id, latest2 |-> latest2,
                          attempt_id |-> worker[w].attempt_id,
                          attempts |-> OrDefault(latest2.attempts, 1),
                          max_attempts |-> OrDefault(latest2.max_attempts, 2)]]
    /\ UNCHANGED <<telemetry, jobs, job_events, job_attempts, monitor, api, calls,
                   claimed>>
    /\ response' = NoResponse

\* dispatch raises (the forced failure, a RuntimeError, or the adapter, an
\* error of the HTTP client): finish_attempt_failure with type(e).__name__,
\* str(e) and the traceback, and the re-read of the job.
DispatchFailure(w) ==
    /\ worker[w].pc = "dispatching"
    /\ LET id == worker[w].job_id
           forced == forced_failure(worker[w].latest)
           latest2 == Kept(jobs[id])
       IN  /\ job_attempts' = update_attempt(job_attempts, id, worker[w].attempt_id,
                                  [status |-> "FAILED",
                                   error_class |-> Some(IF forced THEN "RuntimeError"
                                                        ELSE "HTTPError"),
                                   error_message |-> Some(IF forced THEN "FORCED_FAIL_FIRST"
                                                          ELSE "adapter"),
                                   traceback |-> Some("format_exc")])
           /\ worker' = [worker EXCEPT ![w] =
                            [pc |-> "failed", job_id |-> id, latest2 |-> latest2,
                             attempt_id |-> worker[w].attempt_id,
                             attempts |-> OrDefault(latest2.attempts, 1),
                             max_attempts |-> OrDefault(latest2.max_attempts, 2)]]
    /\ UNCHANGED <<telemetry, jobs, job_events, monitor, api, calls, claimed>>
    /\ response' = NoResponse

\* A _reroute_job whose update also releases the job from its worker (a
\* variant the properties must reject).
RerouteJob_releasing(w) ==
    /\ worker[w].pc = "failed"
    /\ worker[w].attempts < worker[w].max_attempts
    /\ \E decision \in {route(reroute_request(worker[w].latest2), telemetry)} :
       LET id == worker[w].job_id
       IN  IF decision.chosen_resource_id = "none"
           THEN /\ job_events' = add_job_event(job_events, id, "REROUTE_FAILED")
                /\ UNCHANGED <<jobs, job_attempts>>
           ELSE /\ jobs' = update_job(jobs, id,
                     [chosen_resource_id |-> decision.chosen_resource_id,
                      chosen_resource_type |-> decision.chosen_resource_type,
                      worker_id |-> None])
                /\ job_events' = add_job_event(job_events, id, "REROUTED")
                /\ UNCHANGED job_attempts
    /\ worker' = [worker EXCEPT ![w].pc = "retry"]
    /\ UNCHANGED <<telemetry, monitor, api, calls, claimed>>
    /\ response' = NoResponse

\* _reroute_job, when retries remain (REROUTE_ON_RETRY defaults to on).
RerouteJob(w) ==
    /\ worker[w].pc = "failed"
    /\ worker[w].attempts < worker[w].max_attempts
    /\ \E decision \in {route(reroute_request(worker[w].latest2), telemetry)} :
       LET id == worker[w].job_id
           latest == worker[w].latest2
           cs == chosen_score(decision)
       IN  IF decision.chosen_resource_id = "none"
           THEN /\ job_events' = add_job_event(job_events, id, "REROUTE_FAILED")
                /\ UNCHANGED <<jobs, job_attempts>>
           ELSE /\ jobs' = update_job(jobs, id,
                     [chosen_resource_id |-> decision.chosen_resource_id,
                      chosen_resource_type |-> decision.chosen_resource_type,
                      predicted |-> {[latency_ms |-> b.latency_pred_ms,
                                      cost_usd |-> b.cost_pred_usd,
                                      final_score |-> b.final_score] : b \in cs},
                      sla_ok |-> \E b \in cs : b.sla_ok,
                      sla_violations |-> IF cs = None THEN <<>>
                                         ELSE (CHOOSE b \in cs : TRUE).sla_violations])
                /\ job_events' = add_job_event(job_events, id, "REROUTED")
                /\ job_attempts' = update_attempt(job_attempts, id, worker[w].attempt_id,
                     [rerouted_from_resource_id |-> Some(latest.chosen_resource_id),
                      rerouted_to_resource_id |-> Some(decision.chosen_resource_id)])
    /\ worker' = [worker EXCEPT ![w].pc = "retry"]
    /\ UNCHANGED <<telemetry, monitor, api, calls, claimed>>
    /\ response' = NoResponse

\* _reroute_job when route() raises inside its try block (a learned model
\* that throws, say): the handler logs REROUTE_ERROR and returns False.
RerouteJobRaises(w) ==
    /\ worker[w].pc = "failed"
    /\ worker[w].attempts < worker[w].max_attempts
    /\ job_events' = add_job_event(job_events, worker[w].job_id, "REROUTE_ERROR")
    /\ worker' = [worker EXCEPT ![w].pc = "retry"]
    /\ UNCHANGED <<telemetry, jobs, job_attempts, monitor, api, calls, claimed>>
    /\ response' = NoResponse

\* attempts < max_attempts: back to QUEUED with a backoff.
Retry(w) ==
    /\ worker[w].pc = "retry"
    /\ LET id == worker[w].job_id
       IN  /\ jobs' = update_job(jobs, id,
                         [status |-> "QUEUED",
                          next_run_at |-> Some(backoff(worker[w].attempts)),
                          worker_id |-> None])
           /\ job_events' = add_job_event(job_events, id, "RETRY")
           /\ claimed' = [claimed EXCEPT ![id] = 0]
    /\ worker' = [worker EXCEPT ![w] = WorkerIdle]
    /\ UNCHANGED <<telemetry, job_attempts, monitor, api, calls>>
    /\ response' = NoResponse

\* attempts >= max_attempts: FAILED.
GiveUp(w) ==
    /\ worker[w].pc = "failed"
    /\ ~(worker[w].attempts < worker[w].max_attempts)
    /\ LET id == worker[w].job_id
       IN  /\ jobs' = update_job(jobs, id, [status |-> "FAILED", worker_id |-> Some(w)])
           /\ job_events' = add_job_event(job_events, id, "FAILED")
    /\ worker' = [worker EXCEPT ![w] = WorkerIdle]
    /\ UNCHANGED <<telemetry, job_attempts, monitor, api, calls, claimed>>
    /\ response' = NoResponse

----------------------------------------------------------------------------
(* sla_monitor.py *)

MonitorIdle == [pc |-> "idle"]

\* remaining_ms <= QUEUE_MARGIN_MS (400 by default); remaining_ms < 0
at_risk(j) == j.status = "QUEUED" /\ \E r \in j.deadline_in_ms : r <= 400
breached(j) == \E r \in j.deadline_in_ms : r < 0

\* The columns of a row read by list_jobs that the loop body uses.
Seen(row) ==
    [status |-> row.status, deadline_in_ms |-> row.deadline_in_ms,
     job_request_json |-> row.job_request_json,
     chosen_resource_id |-> row.chosen_resource_id]

\* list_jobs and now: the rows of one scan.  The loop body does nothing for
\* a row that is not QUEUED or RUNNING, has no deadline, or is neither at
\* risk nor past its deadline; the scan keeps the others.
Scan ==
    /\ monitor.pc = "idle"
    /\ calls < MaxCalls
    /\ calls' = calls + 1
    /\ LET todo == {id \in DOMAIN jobs :
                        /\ jobs[id].status \in {"QUEUED", "RUNNING"}
                        /\ jobs[id].deadline_in_ms # None
                        /\ at_risk(jobs[id]) \/ breached(jobs[id])}
       IN  monitor' = IF todo = {} THEN MonitorIdle
                      ELSE [pc |-> "scanning",
                            rows |-> [id \in todo |-> Seen(jobs[id])]]
    /\ UNCHANGED <<telemetry, jobs, job_events, job_attempts, worker, api, claimed>>
    /\ response' = NoResponse

\* One pass of the loop body, on the row as the scan read it.
MonitorJob(id) ==
    /\ monitor.pc = "scanning"
    /\ id \in DOMAIN monitor.rows
    /\ \E decision \in {route(reroute_request(monitor.rows[id]), telemetry)} :
       LET j == monitor.rows[id]
           rerouted == at_risk(j) /\ decision.chosen_resource_id # "none"
           ev1 == IF at_risk(j)
                  THEN SetToBag({"DEADLINE_RISK",
                         IF rerouted THEN "DEADLINE_REROUTED" ELSE "DEADLINE_REROUTE_FAILED"})
                  ELSE EmptyBag
           ev2 == IF breached(j) THEN SetToBag({"SLA_BREACH_DEADLINE"}) ELSE EmptyBag
       IN  /\ jobs' = IF rerouted
                      THEN update_job(jobs, id,
                              [chosen_resource_id |-> decision.chosen_resource_id,
                               chosen_resource_type |-> decision.chosen_resource_type])
                      ELSE jobs
           /\ job_events' = [job_events EXCEPT ![id] = @ (+) ev1 (+) ev2]
    /\ monitor' = IF DOMAIN monitor.rows = {id} THEN MonitorIdle
                  ELSE [monitor EXCEPT !.rows = [k \in DOMAIN @ \ {id} |-> @[k]]]
    /\ UNCHANGED <<telemetry, job_attempts, worker, api, calls, claimed>>
    /\ response' = NoResponse

\* One pass of the loop body in which route() raises inside _reroute's try
\* block: the handler logs DEADLINE_REROUTE_ERROR and the pass goes on.
MonitorJobRaises(id) ==
    /\ monitor.pc = "scanning"
    /\ id \in DOMAIN monitor.rows
    /\ at_risk(monitor.rows[id])
    /\ LET j == monitor.rows[id]
           ev1 == SetToBag({"DEADLINE_RISK", "DEADLINE_REROUTE_ERROR"})
           ev2 == IF breached(j) THEN SetToBag({"SLA_BREACH_DEADLINE"}) ELSE EmptyBag
       IN  job_events' = [job_events EXCEPT ![id] = @ (+) ev1 (+) ev2]
    /\ monitor' = IF DOMAIN monitor.rows = {id} THEN MonitorIdle
                  ELSE [monitor EXCEPT !.rows = [k \in DOMAIN @ \ {id} |-> @[k]]]
    /\ UNCHANGED <<telemetry, jobs, job_attempts, worker, api, calls, claimed>>
    /\ response' = NoResponse

----------------------------------------------------------------------------
(* One second passes. *)

Aged(row) ==
    [row EXCEPT !.next_run_at = {Max(0, n - 1) : n \in @},
                !.deadline_in_ms = {IF r < 0 THEN r ELSE r - 1000 : r \in @}]

Tick ==
    /\ jobs' = [id \in DOMAIN jobs |-> Aged(jobs[id])]
    /\ jobs' # jobs
    /\ UNCHANGED <<telemetry, job_events, job_attempts, worker, monitor, api,
                   calls, claimed>>
    /\ response' = NoResponse

----------------------------------------------------------------------------
(* The job lifecycle: submissions, cancels and manual completes from the   *)
(* API, two workers, the SLA monitor, over a fixed telemetry table.        *)

\* The store as init_db leaves it, but for the telemetry table.
InitStore ==
    /\ jobs = <<>>
    /\ job_events = [id \in JobIds |-> EmptyBag]
    /\ job_attempts = [id \in JobIds |-> <<>>]
    /\ worker = [w \in WorkerIds |-> WorkerIdle]
    /\ monitor = MonitorIdle
    /\ api = ApiIdle
    /\ response = NoResponse
    /\ calls = 0
    /\ claimed = [id \in JobIds |-> 0]

Init == telemetry = SysTelemetry /\ InitStore

\* Job ids are interchangeable: the first job submitted is called j1.
SubmitIds == IF jobs = <<>> THEN {"j1"} ELSE JobIds

Next ==
    \/ \E id \in SubmitIds : \E job \in SysRequests(id) : SubmitJob(job)
    \/ \E id \in JobIds : CancelRead(id)
    \/ CancelWrite
    \/ \E id \in JobIds : CompleteJob(id)
    \/ \E w \in WorkerIds : claim_next_job(w)
    \/ \E w \in WorkerIds : Prepare(w)
    \/ \E w \in WorkerIds : DispatchSuccess(w)
    \/ \E w \in WorkerIds : DispatchFailure(w)
    \/ \E w \in WorkerIds : RerouteJob(w)
    \/ \E w \in WorkerIds : Retry(w)
    \/ \E w \in WorkerIds : GiveUp(w)
    \/ Scan
    \/ \E id \in JobIds : MonitorJob(id)
    \/ Tick

Spec == Init /\ [][Next]_vars

\* The worker loop of worker.py: one pass of main's while loop, step by step.
WorkerStep(w) ==
    \/ claim_next_job(w)
    \/ Prepare(w)
    \/ DispatchSuccess(w)
    \/ DispatchFailure(w)
    \/ RerouteJob(w)
    \/ Retry(w)
    \/ GiveUp(w)

\* The lifecycle with its scheduling: every worker keeps polling and every
\* dispatch returns or raises, a request the API has read is answered, a
\* scan of the monitor is carried through, and time passes.
SpecLive ==
    /\ Init
    /\ [][Next]_vars
    /\ \A w \in WorkerIds : WF_vars(WorkerStep(w))
    /\ WF_vars(CancelWrite)
    /\ WF_vars(\E id \in JobIds : MonitorJob(id))
    /\ WF_vars(Tick)

----------------------------------------------------------------------------
(* Retries: every job is submitted once, and the workers, the SLA monitor  *)
(* and time run as in the lifecycle; nobody cancels or completes by hand.  *)

\* The job requests: a job with a 1 s deadline that carries the hint
\* force_fail_first and that any resource can run, and a GPU job with a
\* deadline of 0 that allows the SLA fallback (g1 is the only gpu resource,
\* so a reroute of it finds no alternative).
RetryRequests(id) ==
    { JobRequest(id, FALSE, TRUE, 50, SLA(Some(1000), None, None),
                 Hints(TRUE, {}, None, None)),
      JobRequest(id, TRUE, TRUE, 50, SLA(Some(0), None, None), NoHints) }

\* The job ids not stored yet, the first of them j1.
FreshIds == IF jobs = <<>> THEN {"j1"} ELSE JobIds \ DOMAIN jobs

NextRetry ==
    \/ \E id \in FreshIds : \E job \in RetryRequests(id) : SubmitJob(job)
    \/ \E w \in WorkerIds : claim_next_job(w)
    \/ \E w \in WorkerIds : Prepare(w)
    \/ \E w \in WorkerIds : DispatchSuccess(w)
    \/ \E w \in WorkerIds : DispatchFailure(w)
    \/ \E w \in WorkerIds : RerouteJob(w)
    \/ \E w \in WorkerIds : Retry(w)
    \/ \E w \in WorkerIds : GiveUp(w)
    \/ Scan
    \/ \E id \in JobIds : MonitorJob(id)
    \/ Tick

SpecRetry == Init /\ [][NextRetry]_vars

----------------------------------------------------------------------------
(* Reroutes: the retry specification with a route() that may raise inside  *)
(* the reroute handlers of the worker and of the SLA monitor.              *)

NextReroute ==
    \/ \E id \in FreshIds : \E job \in RetryRequests(id) : SubmitJob(job)
    \/ \E w \in WorkerIds : claim_next_job(w)
    \/ \E w \in WorkerIds : Prepare(w)
    \/ \E w \in WorkerIds : DispatchSuccess(w)
    \/ \E w \in WorkerIds : DispatchFailure(w)
    \/ \E w \in WorkerIds : RerouteJob(w)
    \/ \E w \in WorkerIds : RerouteJobRaises(w)
    \/ \E w \in WorkerIds : Retry(w)
    \/ \E w \in WorkerIds : GiveUp(w)
    \/ Scan
    \/ \E id \in JobIds : MonitorJob(id)
    \/ \E id \in JobIds : MonitorJobRaises(id)
    \/ Tick

SpecReroute == Init /\ [][NextReroute]_vars

----------------------------------------------------------------------------
(* Forced failures: jobs that carry the hint force_fail_first are          *)
(* submitted, under a new or a stored job_id, while the workers run and    *)
(* time passes.                                                            *)

ForcedRequests(id) ==
    { JobRequest(id, FALSE, TRUE, 50, SLA(Some(1000), None, None),
                 Hints(TRUE, {}, None, None)) }

NextForced ==
    \/ \E id \in SubmitIds : \E job \in ForcedRequests(id) : SubmitJob(job)
    \/ \E w \in WorkerIds : claim_next_job(w)
    \/ \E w \in WorkerIds : Prepare(w)
    \/ \E w \in WorkerIds : DispatchSuccess(w)
    \/ \E w \in WorkerIds : DispatchFailure(w)
    \/ \E w \in WorkerIds : RerouteJob(w)
    \/ \E w \in WorkerIds : Retry(w)
    \/ \E w \in WorkerIds : GiveUp(w)
    \/ Tick

SpecForced == Init /\ [][NextForced]_vars

----------------------------------------------------------------------------
(* The SLA monitor: jobs without a deadline and jobs with a deadline of    *)
(* 1.4 s are submitted once each, workers claim and run them, the monitor  *)
(* scans, and time passes.                                                 *)

MonitorRequests(id) ==
    { JobRequest(id, FALSE, TRUE, 50, SLA(d, None, None), NoHints) :
          d \in {None, Some(1400)} }

NextMonitor ==
    \/ \E id \in FreshIds : \E job \in MonitorRequests(id) : SubmitJob(job)
    \/ \E w \in WorkerIds : claim_next_job(w)
    \/ \E w \in WorkerIds : Prepare(w)
    \/ \E w \in WorkerIds : DispatchSuccess(w)
    \/ Scan
    \/ \E id \in JobIds : MonitorJob(id)
    \/ Tick

SpecMonitor == Init /\ [][NextMonitor]_vars

----------------------------------------------------------------------------
(* Routing: telemetry points are ingested into an empty table, and jobs are *)
(* routed (POST /route, a dry run) or submitted against what is stored.     *)

\* The points ingested: edge e1 and e2 with the same metrics at ts 1, a newer
\* e1 of reliability 0.94, a newer e2 of reliability 0.0, a loaded cloud
\* resource, a gpu resource, and a newer g1 below the reliability floor.
Points ==
    { TelemetryPoint("e1", "edge", 1, 10, 990, 1, 20),
      TelemetryPoint("e1", "edge", 2, 10, 940, 1, 20),
      TelemetryPoint("e2", "edge", 1, 10, 990, 1, 20),
      TelemetryPoint("e2", "edge", 2, 10, 0, 1, 20),
      TelemetryPoint("c1", "cloud", 1, 100, 990, 8, 40),
      TelemetryPoint("g1", "gpu", 1, 10, 990, 120, 40),
      TelemetryPoint("g1", "gpu", 2, 10, 800, 120, 40) }

\* The SLAs of the requests: a deadline nothing meets, that deadline with a
\* reliability of 0.95, and the reliability of 0.95 alone.
RouteSLAs ==
    { SLA(Some(0), None, None), SLA(Some(0), None, Some(950)), SLA(None, None, Some(950)) }

RouteRequests ==
    { JobRequest("j1", FALSE, fb, 50, sla, Hints(FALSE, ex, None, None)) :
          fb \in BOOLEAN, sla \in RouteSLAs, ex \in {{}, {"e1"}} }
    \cup { JobRequest("j1", TRUE, fb, 50, sla, NoHints) :
              fb \in BOOLEAN, sla \in {SLA(Some(0), None, None), SLA(None, None, Some(950))} }

SubmitRequests ==
    { JobRequest("j1", FALSE, FALSE, 50, SLA(Some(0), None, None), NoHints),
      JobRequest("j1", FALSE, TRUE, 50, SLA(None, None, Some(950)), NoHints) }

\* telemetry.py, post_point: the point carries its price, so nothing is fetched.
InsertPoint(p) ==
    /\ Len(telemetry) < MaxPoints
    /\ telemetry' = insert_point(telemetry, p)
    /\ response' = NoResponse
    /\ UNCHANGED <<jobs, job_events, job_attempts, worker, monitor, api, calls, claimed>>

\* A route_job that logs the request in the job's event log (a variant the
\* properties must reject).
RouteLogged(job) ==
    /\ response' = [op |-> "route", job |-> job, code |-> 200,
                    decision |-> route(job, telemetry)]
    /\ job_events' = add_job_event(job_events, job.job_id, "ROUTED")
    /\ UNCHANGED <<telemetry, jobs, job_attempts, worker, monitor, api, calls, claimed>>

\* route.py, route_job: the decision is returned, nothing is stored.
RouteDryRun(job) ==
    /\ response' = [op |-> "route", job |-> job, code |-> 200,
                    decision |-> route(job, telemetry)]
    /\ UNCHANGED <<telemetry, jobs, job_events, job_attempts, worker, monitor, api,
                   calls, claimed>>

InitRoute == telemetry = <<>> /\ InitStore

NextRoute ==
    \/ \E p \in Points : InsertPoint(p)
    \/ \E job \in RouteRequests : RouteDryRun(job)
    \/ \E job \in SubmitRequests : SubmitJob(job)

SpecRoute == InitRoute /\ [][NextRoute]_vars

----------------------------------------------------------------------------
(* GPU jobs with a deadline of 0: telemetry points are ingested into an     *)
(* empty table and GPU-requiring jobs with deadline_ms = 0 are submitted.   *)

\* The points ingested: a cloud resource, a loaded gpu resource g1 and a
\* newer g1 below the reliability floor, a gpu resource g2 and a newer g2
\* that is idle and has a round-trip time of 0.
GpuPoints ==
    { TelemetryPoint("c1", "cloud", 1, 10, 990, 8, 40),
      TelemetryPoint("g1", "gpu", 1, 100, 990, 120, 40),
      TelemetryPoint("g1", "gpu", 2, 10, 800, 120, 40),
      TelemetryPoint("g2", "gpu", 1, 10, 990, 120, 20),
      TelemetryPoint("g2", "gpu", 2, 0, 990, 120, 0) }

\* The requests: with and without the SLA fallback, a payload of 50 MB or none.
GpuRequests ==
    { JobRequest("j1", TRUE, fb, payload, SLA(Some(0), None, None), NoHints) :
          fb \in BOOLEAN, payload \in {0, 50} }

NextGpu ==
    \/ \E p \in GpuPoints : InsertPoint(p)
    \/ \E job \in GpuRequests : SubmitJob(job)

SpecGpu == InitRoute /\ [][NextGpu]_vars

----------------------------------------------------------------------------
(* Scoring: score_resource is applied to a telemetry point and a job.      *)

\* The SLAs: no deadline, one nothing meets, 100 ms (the p90 latency of e1
\* for a 50 MB payload) and 1 s; no cost limit, 0, and 2 and 3 tenths of a
\* micro-dollar (e1's p90 cost is 2.4); no reliability, 0.95 and 0.99, the
\* reliability of most points.
ScoreSLAs ==
    { SLA(d, c, r) : d \in {None, Some(0), Some(100), Some(1000)},
                     c \in {None, Some(0), Some(2), Some(3)},
                     r \in {None, Some(950), Some(990)} }

\* One call of score_resource.
ScoreResource(t, job) ==
    /\ response' = [op |-> "score", t |-> t, job |-> job, score |-> score_resource(t, job)]
    /\ UNCHANGED <<telemetry, jobs, job_events, job_attempts, worker, monitor, api,
                   calls, claimed>>

\* The points as list_resources_latest hands them to score_resource.
ScorePoints == { ReadPoint(t) : t \in Points }

ScoreRequests == { JobRequest("j1", FALSE, TRUE, 50, sla, NoHints) : sla \in ScoreSLAs }

NextScore == \E t \in ScorePoints, job \in ScoreRequests : ScoreResource(t, job)

SpecScore == InitRoute /\ [][NextScore]_vars

----------------------------------------------------------------------------
(* Prediction: predict_latency and then predict_cost are applied to the    *)
(* features of a telemetry point and a job, without and with learned       *)
(* models.                                                                 *)

\* What the latency model predicts (ms), if one is loaded, and its quantile.
LatencyModels == {None, Learned(1), Learned(100), Throws}
LatencyQ90 == {0, 10}

\* What the cost model predicts (a residual, 1e-7 USD), if one is loaded, and
\* its quantile.
CostModels == {None, Learned(-5), Learned(0), Learned(5), Throws}
CostQ90 == {0, 4}

\* The two calls score_resource makes: the cost is predicted from the
\* features with latency_pred_ms set to the latency mean.  Neither call is
\* guarded, so an exception of model.predict leaves score_resource at once.
Predict(t, job, lat_model, lat_q90, cost_model, cost_q90) ==
    /\ IF model_raises(lat_model)
       THEN response' = [op |-> "raised", t |-> t, job |-> job,
                         from |-> "predict_latency"]
       ELSE \E lat \in {predict_latency(lat_model, lat_q90, t, job)} :
              IF model_raises(cost_model)
              THEN response' = [op |-> "raised", t |-> t, job |-> job,
                                from |-> "predict_cost"]
              ELSE response' = [op |-> "predict", t |-> t, job |-> job,
                                latency |-> lat,
                                cost |-> predict_cost(cost_model, cost_q90, t, job,
                                                      lat.mean_ms)]
    /\ UNCHANGED <<telemetry, jobs, job_events, job_attempts, worker, monitor, api,
                   calls, claimed>>

PredictRequests ==
    { JobRequest("j1", FALSE, TRUE, payload, SLA(None, None, None), NoHints) :
          payload \in {0, 50} }

NextPredict ==
    \E t \in ScorePoints, job \in PredictRequests,
       lat_model \in LatencyModels, lat_q90 \in LatencyQ90,
       cost_model \in CostModels, cost_q90 \in CostQ90 :
        Predict(t, job, lat_model, lat_q90, cost_model, cost_q90)

SpecPredict == InitRoute /\ [][NextPredict]_vars

----------------------------------------------------------------------------
(* Normalisation: minmax01 is applied to a metric value and a pair of      *)
(* bounds, inverted or not.                                                *)

NormValues == -2..MaxValue
NormBounds == 0..MaxBound

Normalize(x, min_v, max_v, invert) ==
    /\ response' = [op |-> "minmax01", x |-> x, min_v |-> min_v, max_v |-> max_v,
                    invert |-> invert, value |-> minmax01(x, min_v, max_v, invert)]
    /\ UNCHANGED <<telemetry, jobs, job_events, job_attempts, worker, monitor, api,
                   calls, claimed>>

NextNorm ==
    \E x \in NormValues, min_v \in NormBounds, max_v \in NormBounds, invert \in BOOLEAN :
        Normalize(x, min_v, max_v, invert)

SpecNorm == InitRoute /\ [][NextNorm]_vars

----------------------------------------------------------------------------
(* Properties of the job lifecycle *)

Terminal == {"COMPLETED", "FAILED", "CANCELLED"}

\* The step in which claim_next_job hands a job to worker w.
Claims(w) == worker[w].pc = "idle" /\ worker'[w].pc = "claimed"

\* C1: each QUEUED job is claimed exactly once.  Whenever claim_next_job
\* returns a job to a worker, that job was QUEUED and had not been returned
\* to any claim since it was last written QUEUED, the same step leaves it
\* RUNNING with the claimer as worker_id and attempts incremented, and no
\* other worker receives a job in that step.
C1_ClaimedExactlyOnce ==
    [][\A w \in WorkerIds :
          Claims(w) =>
             LET id == worker'[w].job_id
             IN  /\ id \in DOMAIN jobs
                 /\ jobs[id].status = "QUEUED"
                 /\ claimed[id] = 0
                 /\ claimed'[id] = 1
                 /\ jobs'[id].status = "RUNNING"
                 /\ jobs'[id].worker_id = Some(w)
                 /\ jobs'[id].attempts = jobs[id].attempts + 1
                 /\ \A v \in WorkerIds \ {w} : worker'[v] = worker[v]]_vars

\* C1 (case): two workers hold two different jobs, each claimed once.
C1_Witness ==
    /\ worker["w1"].pc = "claimed"
    /\ worker["w2"].pc = "claimed"
    /\ worker["w1"].job_id # worker["w2"].job_id
    /\ \A id \in JobIds : claimed[id] = 1

\* C2: COMPLETED, FAILED and CANCELLED are terminal.  No step of a worker,
\* of cancel, of manual complete or of the monitor (no step but a
\* submission) changes the status of a job whose status is COMPLETED,
\* FAILED or CANCELLED.
C2_TerminalIsFinal ==
    [][response'.op # "submit" =>
          \A id \in DOMAIN jobs :
              jobs[id].status \in Terminal => jobs'[id].status = jobs[id].status]_vars

\* C3: no two attempt rows of the same job share an attempt_no.
C3_AttemptNoUnique ==
    \A id \in JobIds :
        \A m, n \in DOMAIN job_attempts[id] :
            m # n => job_attempts[id][m].attempt_no # job_attempts[id][n].attempt_no

\* C4: under the scheduling of SpecLive every QUEUED job eventually reaches
\* COMPLETED, FAILED or CANCELLED.
C4_QueuedJobsFinish ==
    \A id \in JobIds :
        (id \in DOMAIN jobs /\ jobs[id].status = "QUEUED")
            ~> (id \in DOMAIN jobs /\ jobs[id].status \in Terminal)

\* C5: the monitor never changes the chosen resource of a job a worker has
\* claimed.  No pass of the monitor's loop body changes chosen_resource_id
\* of a job whose status is RUNNING.
C5_MonitorLeavesRunningJobs ==
    [][\A id \in DOMAIN jobs :
          (monitor.pc = "scanning" /\ monitor' # monitor /\ jobs[id].status = "RUNNING")
             => jobs'[id].chosen_resource_id = jobs[id].chosen_resource_id]_vars

\* C10: cancel is valid only from QUEUED or RUNNING.  A cancel answers 404
\* for an unknown job_id; it answers 409 and leaves the job rows and the
\* event log as they are when the job it read was not QUEUED or RUNNING;
\* otherwise it answers 200, the job is CANCELLED and worker_id is cleared.
C10_CancelOnlyFromQueuedOrRunning ==
    [][response'.op = "cancel" =>
          LET id == response'.job_id
          IN  IF id \notin DOMAIN jobs
              THEN response'.code = 404
              ELSE IF response'.code = 200
              THEN /\ api.op = "cancel"
                   /\ api.seen \in {"QUEUED", "RUNNING"}
                   /\ jobs'[id].status = "CANCELLED"
                   /\ jobs'[id].worker_id = None
              ELSE /\ response'.code = 409
                   /\ jobs[id].status \notin {"QUEUED", "RUNNING"}
                   /\ jobs' = jobs
                   /\ job_events' = job_events]_vars

----------------------------------------------------------------------------
(* Properties of routing.  They are stated on the decision the last step   *)
(* returned (POST /route or POST /jobs) and on the telemetry table, which  *)
(* no step has changed since.                                              *)

Decided == response.op \in {"route", "submit"}
Chosen == response.decision.chosen_resource_id
Considered == response.decision.considered
Compliant == {n \in DOMAIN Considered : Considered[n].score.sla_ok}

\* The place of a resource in the encounter order (0 if it is not a candidate).
Encounter(id) ==
    LET cands == list_resources_latest(telemetry)
        at == {i \in DOMAIN cands : cands[i].resource_id = id}
    IN  IF at = {} THEN 0 ELSE CHOOSE i \in at : \A k \in at : i <= k

\* C6: route() never selects a resource whose latest stored reliability is
\* below 0.85, and never a non-gpu resource for a job with requires_gpu.
C6_FloorAndGpu ==
    (Decided /\ Chosen # "none") =>
        \A i \in LatestRowIds(telemetry) :
            telemetry[i].resource_id = Chosen =>
                /\ telemetry[i].reliability >= 850
                /\ response.job.requires_gpu => telemetry[i].resource_type = "gpu"

\* C7: when some eligible candidate is SLA-compliant, the chosen resource is
\* an SLA-compliant candidate of maximum final_score, the first in encounter
\* order of those that share the maximum; it is not an SLA violator and not
\* one of the exclude_resource_ids.
C7_BestCompliantChosen ==
    (Decided /\ Compliant # {}) =>
        LET best == {n \in Compliant :
                        \A m \in Compliant :
                            Considered[m].score.final_score <= Considered[n].score.final_score}
        IN  /\ \E n \in best : Considered[n].resource_id = Chosen
            /\ \A n \in best : Encounter(Chosen) <= Encounter(Considered[n].resource_id)
            /\ \A n \in DOMAIN Considered :
                   Considered[n].resource_id = Chosen => Considered[n].score.sla_ok
            /\ Chosen \notin response.job.hints.exclude_resource_ids

\* C7 (case): two SLA-compliant candidates share the maximum final_score and
\* the first of them in encounter order is chosen.
C7_Witness ==
    /\ Decided
    /\ \E m, n \in Compliant :
          /\ Considered[m].resource_id # Considered[n].resource_id
          /\ Considered[m].score.final_score = Considered[n].score.final_score
          /\ Considered[m].resource_id = Chosen
          /\ Encounter(Chosen) < Encounter(Considered[n].resource_id)

\* C8: when no eligible candidate is SLA-compliant and the job does not allow
\* the SLA fallback, the decision is the sentinel "none", and a submission
\* stores the job BLOCKED.
C8_BlockedWithoutFallback ==
    (Decided /\ Compliant = {} /\ ~response.job.allow_sla_fallback) =>
        /\ Chosen = "none"
        /\ response.op = "submit" =>
              /\ response.status = "BLOCKED"
              /\ jobs[response.job.job_id].status = "BLOCKED"

\* C8 (case): a job is submitted that has candidates, none SLA-compliant, and
\* does not allow the fallback.
C8_Witness ==
    /\ response.op = "submit"
    /\ Considered # <<>>
    /\ Compliant = {}
    /\ ~response.job.allow_sla_fallback
    /\ jobs[response.job.job_id].status = "BLOCKED"

\* C9: when no eligible candidate is SLA-compliant, the job allows the SLA
\* fallback and there is an eligible candidate, the chosen resource is the
\* candidate of highest effective_score.
C9_BestViolatorChosen ==
    (Decided /\ Compliant = {} /\ response.job.allow_sla_fallback /\ Considered # <<>>) =>
        \E n \in DOMAIN Considered :
            /\ Considered[n].resource_id = Chosen
            /\ \A m \in DOMAIN Considered :
                   Considered[m].score.effective_score <= Considered[n].score.effective_score

\* C9 (case): the fallback chooses a violator although another violator has
\* the higher final_score.
C9_Witness ==
    /\ Decided
    /\ Compliant = {}
    /\ response.job.allow_sla_fallback
    /\ \E m, n \in DOMAIN Considered :
          /\ Considered[n].resource_id = Chosen
          /\ Considered[m].resource_id # Chosen
          /\ Considered[m].score.final_score > Considered[n].score.final_score
          /\ Considered[m].score.effective_score < Considered[n].score.effective_score

\* C13: a submitted job that requires a GPU and has deadline_ms = 0 violates
\* its SLA on every eligible GPU resource, whatever the telemetry; without
\* the SLA fallback it is stored BLOCKED, and with the fallback (and an
\* eligible GPU resource) it is stored QUEUED against a gpu resource of
\* highest effective_score with a non-empty sla_violations list.
C13_GpuDeadlineZero ==
    (/\ response.op = "submit"
     /\ response.job.requires_gpu
     /\ response.job.sla.deadline_ms = Some(0)) =>
        LET row == jobs[response.job.job_id]
        IN  /\ \A n \in DOMAIN Considered :
                   /\ Considered[n].resource_type = "gpu"
                   /\ ~Considered[n].score.sla_ok
                   /\ Considered[n].score.sla_violations # <<>>
            /\ ~response.job.allow_sla_fallback =>
                   response.status = "BLOCKED" /\ row.status = "BLOCKED"
            /\ (response.job.allow_sla_fallback /\ Considered # <<>>) =>
                   /\ response.status = "QUEUED" /\ row.status = "QUEUED"
                   /\ row.chosen_resource_type = "gpu"
                   /\ \E n \in DOMAIN Considered :
                         /\ Considered[n].resource_id = row.chosen_resource_id
                         /\ \A m \in DOMAIN Considered :
                                Considered[m].score.effective_score
                                    <= Considered[n].score.effective_score
                   /\ row.sla_violations # <<>>

\* C15: the dry-run route persists nothing and selects as submit does.  A
\* POST /route leaves the jobs table, the job event log and the attempt rows
\* (and the telemetry table) as they are, and when it follows a submission
\* of the same request it returns the decision the submission returned.
C15_DryRunPersistsNothing ==
    [][response'.op = "route" =>
          /\ jobs' = jobs
          /\ job_events' = job_events
          /\ job_attempts' = job_attempts
          /\ telemetry' = telemetry
          /\ (response.op = "submit" /\ response.job = response'.job) =>
                 response'.decision = response.decision]_vars

\* C15 (case): a request that is stored as a QUEUED job has just been routed
\* dry, to the resource stored for the job.
C15_Witness ==
    /\ response.op = "route"
    /\ "j1" \in DOMAIN jobs
    /\ jobs["j1"].status = "QUEUED"
    /\ jobs["j1"].job_request_json = response.job
    /\ jobs["j1"].chosen_resource_id = Chosen
    /\ job_events["j1"] = SetToBag({"SUBMITTED"})

----------------------------------------------------------------------------
(* Properties of retries *)

\* No worker is between its claim of job id and the end of that pass.
Settled(id) == \A w \in WorkerIds : worker[w].pc # "idle" => worker[w].job_id # id

\* C11: a job (max_attempts = 2) whose two dispatch attempts both failed has
\* exactly 2 attempt rows and, once the worker has finished the pass, status
\* FAILED; the second attempt row's resource differs from the first's if the
\* reroute after the first failure succeeded and is the same if it found no
\* alternative.
C11_TwoFailuresEndFailed ==
    \A id \in DOMAIN jobs :
        LET a == job_attempts[id]
        IN  (Len(a) >= 2 /\ a[1].status = "FAILED" /\ a[2].status = "FAILED") =>
                /\ Len(a) = 2
                /\ Settled(id) => jobs[id].status = "FAILED"
                /\ IF a[1].rerouted_to_resource_id # None
                   THEN a[2].chosen_resource_id # a[1].chosen_resource_id
                   ELSE a[2].chosen_resource_id = a[1].chosen_resource_id

\* C12: a job submitted with the hint force_fail_first (max_attempts = 2)
\* fails its first attempt with the forced failure, is rerouted by the worker
\* (another eligible resource exists), and its second attempt runs against a
\* resource different from the first attempt's; it is COMPLETED only by its
\* second attempt.
C12_ForcedFailureThenElsewhere ==
    \A id \in DOMAIN jobs :
        LET a == job_attempts[id]
        IN  jobs[id].job_request_json.hints.force_fail_first =>
                /\ (Len(a) >= 1 /\ a[1].status # "RUNNING") =>
                       /\ a[1].status = "FAILED"
                       /\ a[1].error_message = Some("FORCED_FAIL_FIRST")
                /\ (Len(a) >= 1 /\ a[1].status = "FAILED" /\ Settled(id)) =>
                       a[1].rerouted_to_resource_id # None
                /\ Len(a) >= 2 => a[2].chosen_resource_id # a[1].chosen_resource_id
                /\ jobs[id].status = "COMPLETED" =>
                       Len(a) = 2 /\ a[2].status = "COMPLETED"

\* The step in which worker w ends its handling of a failed dispatch.
EndsFailure(w) == worker[w].pc \in {"failed", "retry"} /\ worker'[w].pc = "idle"

\* C17: a worker ends a failed dispatch in one of two ways.  If the job's
\* attempts is below its max_attempts the job becomes QUEUED with worker_id
\* cleared and next_run_at min(60, 2^attempts) seconds ahead; otherwise it
\* becomes FAILED.  No step makes a job QUEUED that leaves its attempts at or
\* above its max_attempts.
C17_RetryOrFail ==
    [][/\ \A w \in WorkerIds :
             EndsFailure(w) =>
                LET id == worker[w].job_id
                IN  IF jobs[id].attempts < jobs[id].max_attempts
                    THEN /\ jobs'[id].status = "QUEUED"
                         /\ jobs'[id].worker_id = None
                         /\ jobs'[id].next_run_at = Some(Min(60, Pow2(jobs[id].attempts)))
                    ELSE jobs'[id].status = "FAILED"
       /\ \A id \in DOMAIN jobs :
             (jobs[id].status # "QUEUED" /\ jobs'[id].status = "QUEUED") =>
                jobs'[id].attempts < jobs'[id].max_attempts]_vars

\* C18: a successful claim_next_job is one step that changes exactly one job
\* row.  In the step that hands a job to worker w the job goes from QUEUED to
\* RUNNING, its attempts grows by exactly 1, its worker_id becomes w and its
\* next_run_at becomes null; the row's other columns, every other job row,
\* the event log and the attempt rows are as before.
C18_ClaimChangesOneJob ==
    [][\A w \in WorkerIds :
          Claims(w) =>
             LET id == worker'[w].job_id
             IN  /\ id \in DOMAIN jobs
                 /\ jobs[id].status = "QUEUED"
                 /\ jobs'[id] = [jobs[id] EXCEPT !.status = "RUNNING",
                                                 !.attempts = jobs[id].attempts + 1,
                                                 !.worker_id = Some(w),
                                                 !.next_run_at = None]
                 /\ DOMAIN jobs' = DOMAIN jobs
                 /\ \A k \in DOMAIN jobs \ {id} : jobs'[k] = jobs[k]
                 /\ job_events' = job_events
                 /\ job_attempts' = job_attempts]_vars

\* C18 (case): a worker holds a job it claimed for its second attempt while
\* another job is still QUEUED and untouched.
C18_Witness ==
    \E w \in WorkerIds :
        /\ worker[w].pc = "claimed"
        /\ jobs[worker[w].job_id].status = "RUNNING"
        /\ jobs[worker[w].job_id].attempts = 2
        /\ jobs[worker[w].job_id].worker_id = Some(w)
        /\ jobs[worker[w].job_id].next_run_at = None
        /\ \E k \in DOMAIN jobs \ {worker[w].job_id} :
              jobs[k].status = "QUEUED" /\ jobs[k].attempts = 0

\* C19: claim_next_job claims only a job that is QUEUED and whose next_run_at
\* is null or not later than the current time, and of those the one with the
\* oldest created_at; so a job re-queued with a backoff is not claimed while
\* its next_run_at is still ahead.
C19_ClaimsOldestDueJob ==
    [][\A w \in WorkerIds :
          Claims(w) =>
             LET id == worker'[w].job_id
             IN  /\ id \in DOMAIN jobs
                 /\ jobs[id].status = "QUEUED"
                 /\ \A n \in jobs[id].next_run_at : n <= 0
                 /\ \A k \in DOMAIN jobs :
                       (/\ jobs[k].status = "QUEUED"
                        /\ \A n \in jobs[k].next_run_at : n <= 0)
                           => jobs[id].created_at <= jobs[k].created_at]_vars

\* C19 (case): a worker has claimed the newer job while the older one waits,
\* QUEUED, for a next_run_at that is still ahead.
C19_Witness ==
    \E w \in WorkerIds :
        /\ worker[w].pc = "claimed"
        /\ \E k \in DOMAIN jobs :
              /\ jobs[k].status = "QUEUED"
              /\ \E n \in jobs[k].next_run_at : n > 0
              /\ jobs[k].created_at < jobs[worker[w].job_id].created_at
              /\ jobs[worker[w].job_id].status = "RUNNING"

\* C20: a claim_next_job call that finds no eligible job claims nothing and
\* changes nothing.  When no job is QUEUED with next_run_at null or due the
\* call returns no job, and a call that returns no job leaves every job row,
\* the event log, the attempt rows and every worker (the caller stays in its
\* polling loop) as they were.
C20_NothingClaimedNothingChanged ==
    [][response'.op = "claim" =>
          /\ (\A k \in DOMAIN jobs :
                  ~(/\ jobs[k].status = "QUEUED"
                    /\ \A n \in jobs[k].next_run_at : n <= 0))
                => response'.job_id = None
          /\ response'.job_id = None =>
                /\ jobs' = jobs
                /\ job_events' = job_events
                /\ job_attempts' = job_attempts
                /\ worker' = worker
                /\ claimed' = claimed]_vars

\* C20 (case): a call has just returned no job while the other worker holds
\* the only job, which it claimed first, and a BLOCKED job is stored.
C20_Witness ==
    /\ response = [op |-> "claim", job_id |-> None]
    /\ \E w \in WorkerIds :
          /\ worker[w].pc = "claimed"
          /\ jobs[worker[w].job_id].status = "RUNNING"
          /\ \E v \in WorkerIds \ {w} : worker[v].pc = "idle"
    /\ \E k \in DOMAIN jobs : jobs[k].status = "BLOCKED"

----------------------------------------------------------------------------
(* Properties of normalisation *)

\* C16: the normaliser's output lies in [0,1] for every value and bounds.
\* For bounds min < max the value before inversion is 0 at or below min, 1
\* at or above max and (x - min) / (max - min) in between (to the 1e-4 the
\* model keeps); an inverted metric returns 1 minus that value; a
\* zero-width or reversed pair of bounds gives 0.
C16_NormalizedInUnitInterval ==
    response.op = "minmax01" =>
        LET x == response.x
            lo == response.min_v
            hi == response.max_v
            out == response.value
            v == IF response.invert THEN One - out ELSE out
        IN  /\ 0 <= out /\ out <= One
            /\ hi <= lo => out = 0
            /\ (lo < hi /\ x <= lo) => v = 0
            /\ (lo < hi /\ x >= hi) => v = One
            /\ (lo < hi /\ lo < x /\ x < hi) =>
                   /\ v * (hi - lo) <= (x - lo) * One
                   /\ (x - lo) * One < (v + 1) * (hi - lo)

\* C16 (case): an inverted metric a quarter of the way into its bounds is
\* normalised to 0.75.
C16_Witness ==
    /\ response.op = "minmax01"
    /\ response.invert
    /\ response.min_v < response.x
    /\ response.x < response.max_v
    /\ 4 * (response.x - response.min_v) = response.max_v - response.min_v
    /\ response.value = 7500

----------------------------------------------------------------------------
(* Properties of failed attempts *)

\* Another resource than rid has a stored point that passes _eligible for
\* the job's request.
OtherEligible(id, rid) ==
    \E i \in DOMAIN telemetry :
        /\ telemetry[i].resource_id # rid
        /\ eligible(ReadPoint(telemetry[i]), jobs[id].job_request_json)

\* C21: after an attempt of a job failed on resource R, the job's next
\* attempt runs on a resource other than R whenever another eligible resource
\* exists, under every interleaving of the worker with the SLA monitor.
C21_NextAttemptElsewhere ==
    \A id \in DOMAIN jobs :
        \A n \in DOMAIN job_attempts[id] :
            LET a == job_attempts[id]
            IN  (/\ n + 1 \in DOMAIN a
                 /\ a[n].status = "FAILED"
                 /\ OtherEligible(id, a[n].chosen_resource_id))
                    => a[n + 1].chosen_resource_id # a[n].chosen_resource_id

\* The attempt rows of job id that are closed FAILED with the error's class,
\* message and traceback.
FailedRows(id) ==
    {n \in DOMAIN job_attempts[id] :
        /\ job_attempts[id][n].status = "FAILED"
        /\ job_attempts[id][n].error_class # None
        /\ job_attempts[id][n].error_message # None
        /\ job_attempts[id][n].traceback # None}

\* C22: the attempt row is closed FAILED, with the error's class, message
\* and traceback, before the worker decides on the failure.  A worker that
\* is deciding (rerouting, or about to re-queue or to fail the job) has its
\* attempt row among the closed ones, and a job has at least as many closed
\* FAILED attempt rows as it has been re-queued (RETRY) or marked FAILED.
C22_FailureRecordedFirst ==
    /\ \A w \in WorkerIds :
          worker[w].pc \in {"failed", "retry"} =>
              worker[w].attempt_id \in FailedRows(worker[w].job_id)
    /\ \A id \in JobIds :
          CopiesIn("RETRY", job_events[id]) + CopiesIn("FAILED", job_events[id])
              <= Cardinality(FailedRows(id))

\* C22 (case): a job is QUEUED again after its first attempt failed and was
\* rerouted, and a second job has been marked FAILED after its second failure.
C22_Witness ==
    \E id, k \in DOMAIN jobs :
        /\ jobs[id].status = "QUEUED"
        /\ CopiesIn("RETRY", job_events[id]) = 1
        /\ FailedRows(id) = {1}
        /\ job_attempts[id][1].rerouted_to_resource_id # None
        /\ jobs[k].status = "FAILED"
        /\ CopiesIn("FAILED", job_events[k]) = 1
        /\ FailedRows(k) = {1, 2}

\* Worker w is between create_attempt and the end of dispatch for the n-th
\* attempt row of job id.
Dispatching(w, id, n) ==
    /\ worker[w].pc = "dispatching"
    /\ worker[w].job_id = id
    /\ worker[w].attempt_id = n

C24_ForcedFailureFirstAttemptOnly ==
    \A id \in DOMAIN jobs :
        LET a == job_attempts[id]
        IN  jobs[id].job_request_json.hints.force_fail_first =>
                /\ (Len(a) >= 1 /\ a[1].status # "RUNNING") =>
                       /\ a[1].status = "FAILED"
                       /\ a[1].error_class = Some("RuntimeError")
                       /\ a[1].error_message = Some("FORCED_FAIL_FIRST")
                /\ \A n \in DOMAIN a :
                       n >= 2 => a[n].error_message # Some("FORCED_FAIL_FIRST")
                /\ Len(a) <= jobs[id].max_attempts

----------------------------------------------------------------------------
(* Properties of the SLA monitor *)

\* The step appends an event of the given kind to the log of job id.
Logged(id, kind) == CopiesIn(kind, job_events'[id]) > CopiesIn(kind, job_events[id])

\* The step is a pass of the monitor's loop body for job id.
MonitorPass(id) ==
    /\ monitor.pc = "scanning"
    /\ id \in DOMAIN monitor.rows
    /\ monitor' # monitor

\* C25: the monitor logs a deadline-risk event for a job, and reroutes it,
\* only if the job has a deadline, is QUEUED when the monitor acts, and the
\* remaining time the monitor computed (created_at + deadline_ms - now) is
\* strictly less than the margin of 400 ms; it logs a breach event only for
\* a QUEUED or RUNNING job whose remaining time is negative.
C25_MonitorOnlyWhenDue ==
    [][\A id \in DOMAIN jobs :
          /\ (\/ Logged(id, "DEADLINE_RISK")
              \/ Logged(id, "DEADLINE_REROUTED")
              \/ Logged(id, "DEADLINE_REROUTE_FAILED")
              \/ /\ MonitorPass(id)
                 /\ jobs'[id].chosen_resource_id # jobs[id].chosen_resource_id) =>
                 /\ MonitorPass(id)
                 /\ jobs[id].status = "QUEUED"
                 /\ \E r \in monitor.rows[id].deadline_in_ms : r < 400
          /\ Logged(id, "SLA_BREACH_DEADLINE") =>
                 /\ MonitorPass(id)
                 /\ jobs[id].status \in {"QUEUED", "RUNNING"}
                 /\ \E r \in monitor.rows[id].deadline_in_ms : r < 0]_vars

----------------------------------------------------------------------------
(* Properties of the event log *)

\* C26: every status transition of a job appends an event row to the job's
\* log.  A step that stores a job QUEUED or BLOCKED appends SUBMITTED, or
\* RETRY when it re-queues; a step that makes it COMPLETED, FAILED or
\* CANCELLED appends the event of that name; the only step that makes a job
\* RUNNING is a claim, which appends nothing itself, and under the scheduling
\* of SpecLive the claiming worker goes on (no worker stays for ever where
\* its claim left it) and then appends RUNNING (or SKIPPED, when it finds
\* the job CANCELLED).
C26_TransitionsLogged ==
    /\ [][\A id \in DOMAIN jobs' :
             (id \notin DOMAIN jobs \/ jobs'[id].status # jobs[id].status) =>
                 LET st == jobs'[id].status
                 IN  /\ st = "QUEUED" => Logged(id, "SUBMITTED") \/ Logged(id, "RETRY")
                     /\ st = "BLOCKED" => Logged(id, "SUBMITTED")
                     /\ st = "RUNNING" =>
                           \E w \in WorkerIds : Claims(w) /\ worker'[w].job_id = id
                     /\ st \in {"COMPLETED", "FAILED", "CANCELLED"} => Logged(id, st)]_vars
    /\ [][\A w \in WorkerIds :
             (worker[w].pc = "claimed" /\ worker'[w].pc # "claimed") =>
                 \/ Logged(worker[w].job_id, "RUNNING")
                 \/ Logged(worker[w].job_id, "SKIPPED")]_vars
    /\ \A w \in WorkerIds : []<>(worker[w].pc # "claimed")

\* C26 (case): a job has gone through submit, claim, a failed attempt, the
\* re-queue, a second claim and completion, and another through two failed
\* attempts to FAILED; the log of each holds the events of all of them.
C26_Witness ==
    \E id, k \in DOMAIN jobs :
        /\ jobs[id].status = "COMPLETED"
        /\ CopiesIn("SUBMITTED", job_events[id]) = 1
        /\ CopiesIn("RUNNING", job_events[id]) = 2
        /\ CopiesIn("RETRY", job_events[id]) = 1
        /\ CopiesIn("COMPLETED", job_events[id]) = 1
        /\ jobs[k].status = "FAILED"
        /\ CopiesIn("SUBMITTED", job_events[k]) = 1
        /\ CopiesIn("RUNNING", job_events[k]) = 2
        /\ CopiesIn("RETRY", job_events[k]) = 1
        /\ CopiesIn("FAILED", job_events[k]) = 1

----------------------------------------------------------------------------
(* Properties of the workers *)

\* The jobs stored RUNNING with worker w as worker_id.
InFlight(w) ==
    {id \in DOMAIN jobs : jobs[id].status = "RUNNING" /\ jobs[id].worker_id = Some(w)}

\* C27: each worker has at most one job in flight.  For every worker id at
\* most one job is RUNNING with that worker as worker_id, and such a job is
\* the one the worker is handling.
C27_OneJobInFlightPerWorker ==
    \A w \in WorkerIds :
        /\ Cardinality(InFlight(w)) <= 1
        /\ \A id \in InFlight(w) : worker[w].pc # "idle" /\ worker[w].job_id = id

\* C27 (case): the two workers each hold a different RUNNING job, and the
\* first of them has opened the attempt row of its job.
C27_Witness ==
    /\ InFlight("w1") # {}
    /\ InFlight("w2") # {}
    /\ InFlight("w1") # InFlight("w2")
    /\ \E id \in InFlight("w1") : Len(job_attempts[id]) >= 1

\* The step in which worker w's call of dispatch reaches the execution
\* adapter (dispatch does not raise the forced failure first).
AdapterCall(w) ==
    /\ worker[w].pc = "dispatching"
    /\ worker'[w].pc # "dispatching"
    /\ ~forced_failure(worker[w].latest)

\* C28: a worker skips a job cancelled after its claim, and no adapter call
\* starts for a cancelled job.  A worker that goes on from its claim while
\* the job is CANCELLED opens no attempt row, leaves the job CANCELLED and
\* ends the pass; and no call of dispatch reaches the execution adapter for
\* a job that is CANCELLED.
C28_CancelledJobNotDispatched ==
    [][\A w \in WorkerIds :
          /\ (/\ worker[w].pc = "claimed"
              /\ worker'[w] # worker[w]
              /\ jobs[worker[w].job_id].status = "CANCELLED") =>
                 /\ job_attempts' = job_attempts
                 /\ jobs'[worker[w].job_id].status = "CANCELLED"
                 /\ worker'[w].pc = "idle"
          /\ AdapterCall(w) => jobs[worker[w].job_id].status # "CANCELLED"]_vars

----------------------------------------------------------------------------
(* Properties of scoring *)

\* The constraints of the job scored that the breakdown breaches: the p90
\* latency (1.25 x the mean) is over deadline_ms, the p90 cost (1.2 x the
\* mean) is over max_cost_usd, the reliability is under min_reliability.
Breached ==
    LET b == response.score
        sla == response.job.sla
    IN  (IF \E d \in sla.deadline_ms : 5 * b.latency_pred_ms > 4 * d
            THEN {"deadline_ms"} ELSE {})
        \cup (IF \E c \in sla.max_cost_usd : 6 * b.cost_pred_usd > 5 * c
                 THEN {"max_cost_usd"} ELSE {})
        \cup (IF \E r \in sla.min_reliability : b.reliability < r
                 THEN {"min_reliability"} ELSE {})

\* C29: the score breakdown lists one violation per breached constraint (an
\* unset constraint is never breached), sla_ok is true exactly when the list
\* is empty, and effective_score = final_score - 0.35 x the number of
\* violations, so the two scores are equal exactly when sla_ok.
C29_ViolationsAndPenalty ==
    response.op = "score" =>
        LET b == response.score
            v == b.sla_violations
        IN  /\ {v[n] : n \in DOMAIN v} = Breached
            /\ Len(v) = Cardinality(Breached)
            /\ b.sla_ok <=> (v = <<>>)
            /\ b.effective_score = b.final_score - 350000 * Len(v)
            /\ (b.effective_score = b.final_score) <=> b.sla_ok

\* C29 (case): a resource whose p90 latency equals the deadline breaches the
\* other two constraints and is charged two penalties.
C29_Witness ==
    /\ response.op = "score"
    /\ \E d \in response.job.sla.deadline_ms : 5 * response.score.latency_pred_ms = 4 * d
    /\ response.score.sla_violations = <<"max_cost_usd", "min_reliability">>
    /\ response.score.effective_score = response.score.final_score - 700000

----------------------------------------------------------------------------
(* Properties of the predictors *)

\* C30: both predictors return a p90 estimate that is at least the point
\* estimate, p90_ms >= mean_ms and p90_usd >= mean_usd, without a learned
\* model and with one.
C30_P90AtLeastMean ==
    response.op = "predict" =>
        /\ response.latency.p90_x20 >= 20 * response.latency.mean_ms
        /\ response.cost.p90_x20 >= 20 * response.cost.mean_usd

\* C31: the predictors never fail: without a learned model, and when the
\* learned model raises, predict_latency and predict_cost return the analytic
\* fallback value, so that no prediction ends in an exception.
C31_PredictorsNeverFail ==
    response.op # "raised"

----------------------------------------------------------------------------
(* Properties of the stored routing outcome *)

\* What the Router computes for the job of a stored row on the resource the
\* row names: the score of that resource's latest telemetry point.
RouterOutcome(row) ==
    LET latest == list_resources_latest(telemetry)
        n == CHOOSE n \in DOMAIN latest :
                 latest[n].resource_id = row.chosen_resource_id
    IN  score_resource(latest[n], row.job_request_json)

\* The routing outcome a row stores is that of its chosen resource.
OutcomeCurrent(row) ==
    LET b == RouterOutcome(row)
    IN  /\ row.predicted = {[latency_ms |-> b.latency_pred_ms,
                             cost_usd |-> b.cost_pred_usd,
                             final_score |-> b.final_score]}
        /\ row.sla_ok = b.sla_ok
        /\ row.sla_violations = b.sla_violations

\* C32: the routing outcome stored on a job row is that of the currently
\* chosen resource: after submit and after every reroute, by a worker or by
\* the SLA monitor, the predicted latency, predicted cost, final score,
\* sla_ok and violations of the row are those the Router computed for the
\* row's chosen_resource_id.
C32_StoredOutcomeIsOfChosenResource ==
    \A id \in DOMAIN jobs :
        jobs[id].chosen_resource_id # "none" => OutcomeCurrent(jobs[id])

----------------------------------------------------------------------------
(* Properties of the sentinel decision *)

\* C33: route() returns the sentinel "none" exactly when no candidate passes
\* eligibility and hint filtering (whatever allow_sla_fallback is), or no
\* candidate that passes is SLA-compliant and the job disallows the SLA
\* fallback; in every other case the chosen resource is a member of the
\* considered list.
C33_SentinelExactly ==
    Decided =>
        /\ Chosen = "none" <=>
              \/ Considered = <<>>
              \/ Compliant = {} /\ ~response.job.allow_sla_fallback
        /\ Chosen # "none" =>
              \E n \in DOMAIN Considered : Considered[n].resource_id = Chosen

\* C33 (case): a job that allows the SLA fallback is routed over a telemetry
\* table that holds resources, none of which passes eligibility and the hint
\* filters, and the decision is the sentinel.
C33_Witness ==
    /\ Decided
    /\ telemetry # <<>>
    /\ Considered = <<>>
    /\ response.job.allow_sla_fallback
    /\ Chosen = "none"

----------------------------------------------------------------------------
(* Properties of the attempts counter *)

\* C34: in every reachable state each job's attempts counter is at most its
\* max_attempts, and no job has been dispatched more than max_attempts times
\* (each dispatch has its attempt row), under any interleaving of workers,
\* cancel, manual complete and SLA-monitor reroutes.
C34_AttemptsBounded ==
    \A id \in DOMAIN jobs :
        /\ jobs[id].attempts <= jobs[id].max_attempts
        /\ Len(job_attempts[id]) <= jobs[id].max_attempts

----------------------------------------------------------------------------
(* Properties of resubmission *)

\* C35: submitting a job whose job_id is already stored does not restart the
\* stored job: the submission leaves the job's status, attempts and worker_id
\* as they are, and so never puts a RUNNING or terminal job back to QUEUED
\* with attempts = 0.
C35_ResubmissionKeepsJob ==
    [][\A id \in DOMAIN jobs :
          (response'.op = "submit" /\ response'.job.job_id = id) =>
              /\ jobs'[id].status = jobs[id].status
              /\ jobs'[id].attempts = jobs[id].attempts
              /\ jobs'[id].worker_id = jobs[id].worker_id]_vars

----------------------------------------------------------------------------
(* Properties of BLOCKED jobs *)

\* The step is the write of a cancel, a manual complete or a submission of
\* job id.
ApiWrite(id) ==
    \/ response'.op = "submit" /\ response'.job.job_id = id
    \/ response'.op \in {"cancel", "complete"} /\ response'.job_id = id
                                                 /\ response'.code = 200

\* C36: a job stored as BLOCKED is never claimed or dispatched: no worker
\* moves it to RUNNING, its attempts stays 0 and it gets no attempt row, and
\* it leaves BLOCKED only through cancel, manual complete or a new
\* submission.
C36_BlockedStaysPut ==
    [][\A id \in DOMAIN jobs :
          jobs[id].status = "BLOCKED" =>
              /\ jobs[id].attempts = 0
              /\ jobs'[id].status # "RUNNING"
              /\ jobs'[id].attempts = 0
              /\ job_attempts'[id] = job_attempts[id]
              /\ jobs'[id].status # "BLOCKED" => ApiWrite(id)]_vars

----------------------------------------------------------------------------
(* Properties of reroutes *)

RoutingFields == {"chosen_resource_id", "chosen_resource_type"}
OutcomeFields == {"predicted", "sla_ok", "sla_violations"}

\* The step leaves every column of job id's row outside fields as it is.
SameBut(id, fields) ==
    \A f \in DOMAIN jobs[id] \ fields : jobs'[id][f] = jobs[id][f]

----------------------------------------------------------------------------
(* Properties of the end of a job's life *)

\* The statuses of job id's attempt rows, in rowid order.
AttemptStatuses(id) ==
    [n \in DOMAIN job_attempts[id] |-> job_attempts[id][n].status]

\* C38: job status and attempt history agree at the end of a job's life.  A
\* job in status FAILED has attempts = max_attempts and all of its attempt
\* rows are FAILED; a job marked COMPLETED by a worker (output_ref is the
\* adapter's) has exactly one COMPLETED attempt row, which is its last one.
C38_StatusAgreesWithAttempts ==
    \A id \in DOMAIN jobs :
        LET st == AttemptStatuses(id)
        IN  /\ jobs[id].status = "FAILED" =>
                  /\ jobs[id].attempts = jobs[id].max_attempts
                  /\ \A n \in DOMAIN st : st[n] = "FAILED"
            /\ (jobs[id].status = "COMPLETED" /\ jobs[id].output_ref = Some("sim")) =>
                  /\ st # <<>>
                  /\ st[Len(st)] = "COMPLETED"
                  /\ \A n \in DOMAIN st : st[n] = "COMPLETED" => n = Len(st)

----------------------------------------------------------------------------
(* Properties of RUNNING attempt rows *)

\* The attempt rows of job id that are RUNNING.
RunningRows(id) ==
    {n \in DOMAIN job_attempts[id] : job_attempts[id][n].status = "RUNNING"}

\* C39: in every reachable state each job has at most one attempt row in
\* status RUNNING, and a job has a RUNNING attempt row only while the job
\* itself is RUNNING.
C39_RunningRowOnlyWhileRunning ==
    \A id \in DOMAIN jobs :
        /\ Cardinality(RunningRows(id)) <= 1
        /\ RunningRows(id) # {} => jobs[id].status = "RUNNING"

====
